---- MODULE Spec2Model ----
(***************************************************************************)
(* A model of the rafting_trip election core: RaftTimer, the stack-ordered *)
(* test channel, and RaftBuddy::tick with process_inbox, solicit_votes and *)
(* the quorum count.  One action, Tick(self), is one call of               *)
(* <RaftBuddy as Temporal>::tick.  Beside the nodes stand a RaftLog with   *)
(* append_entries and a channel of its own, called by a driver.            *)
(***************************************************************************)
EXTENDS Integers, Sequences, FiniteSets, TLC

VARIABLES
    topology,        \* Topology: the set of RaftId keys of the BTreeMap
    role,            \* RaftBuddy.role, per id
    timer,           \* RaftBuddy.timer, per id: [default_timeout, ticks_left]
    current_term,    \* RaftBuddy.current_term, per id
    log,             \* RaftBuddy.log, per id: a sequence of LogEntry
    votes_received,  \* RaftBuddy.votes_received, per id: a map RaftId -> Message
    channel,         \* the queue of the channel the topology holds for each id
    panicked,        \* TRUE once a tick has unwound through a panic
    ticks,           \* history: how many times tick was called on each node
    turn,            \* the driver's position in a round (round driver only)
    raft_log,        \* a RaftLog of its own: a sequence of LogEntry
    mailbox,         \* a channel of its own: [impl, queue]
    call,            \* the driver's last call on raft_log or mailbox
    pending,         \* history: the pushes into mailbox not yet popped
    delivered        \* history: the votes the driver pushed into a node's queue

vars == <<topology, role, timer, current_term, log, votes_received, channel,
          panicked, ticks, turn, raft_log, mailbox, call, pending, delivered>>

----------------------------------------------------------------------------
(* Bounds of the exploration. *)

\* Members of the topology explored under every driver order.
NumBuddies == 3

\* Calls of tick, over all nodes, under every driver order.
MaxTicks == 8

\* The timeouts explored under every driver order are
\* base + index * step, base in 1..MaxTimeoutBase, step in 0..MaxTimeoutStep.
MaxTimeoutBase == 2

MaxTimeoutStep == 1

\* Terms 0..MaxTerm and log lengths 1..MaxLogLen of the nodes built with
\* fields of their own.
MaxTerm == 1

MaxLogLen == 2

\* Rounds driven by the round driver.
MaxRounds == 210

\* Calls the driver makes on the RaftLog of its own.
MaxCalls == 2

\* Entries handed to one call of append_entries.
MaxRun == 2

\* Pushes the driver makes into a queue.
MaxPushes == 4

(* Program constants. *)

\* default_topology() of the tests has five members.
DefaultTopologySize == 5

\* From<Topology>: default_timeout = 100 + index * 10.
TimeoutBase == 100

TimeoutStep == 10

----------------------------------------------------------------------------
(* raft_buddy.rs: Role *)

Roles == {"Follower", "Candidate", "Leader"}

(* raft_log.rs: LogEntry, RaftLog::default, RaftLog::from *)

Root == [kind |-> "Root"]

Node(term, index, contents) ==
    [kind |-> "Node", term |-> term, index |-> index, contents |-> contents]

DefaultLog == <<Root>>

\* RaftLog::from(entries) for Root followed by len - 1 entries of term 0.
LogOfLen(len) == <<Root>> \o [k \in 1..(len - 1) |-> Node(0, k, "set x")]

(* raft_log.rs: <RaftLog as RaftAppendable>::append_entries.  The result   *)
(* is the log the call leaves and the value it returns.  The entry at      *)
(* prev_index is lg[prev_index + 1]; self.get(prev_index) is None from     *)
(* Len(lg) on, so prev_index + 1 is computed only below the length.        *)

\* Mutant: the log is cut back to prev_index + 1 before the checks.
AppendEntriesTruncateFirst(lg, prev_index, prev_term, entries) ==
    IF prev_index >= Len(lg) THEN [log |-> lg, returned |-> FALSE]
    ELSE LET prev_entry == lg[prev_index + 1]
             prev_term_matches ==
                 IF prev_entry.kind = "Root" THEN TRUE
                 ELSE prev_entry.term = prev_term
                          /\ prev_entry.index = prev_index
             cut == SubSeq(lg, 1, prev_index + 1)
         IN IF entries = <<>> THEN [log |-> lg, returned |-> TRUE]
            ELSE LET new_entry == Head(entries)
                     new_entry_is_contiguous ==
                         IF new_entry.kind = "Node"
                         THEN new_entry.index = prev_index + 1
                         ELSE FALSE
                 IN IF prev_term_matches /\ new_entry_is_contiguous
                    THEN [log |-> cut \o entries, returned |-> TRUE]
                    ELSE [log |-> cut, returned |-> FALSE]

\* Mutant: only the first of the entries is appended.
AppendEntriesFirstOnly(lg, prev_index, prev_term, entries) ==
    IF prev_index >= Len(lg) THEN [log |-> lg, returned |-> FALSE]
    ELSE LET prev_entry == lg[prev_index + 1]
             prev_term_matches ==
                 IF prev_entry.kind = "Root" THEN TRUE
                 ELSE prev_entry.term = prev_term
                          /\ prev_entry.index = prev_index
         IN IF entries = <<>> THEN [log |-> lg, returned |-> TRUE]
            ELSE LET new_entry == Head(entries)
                     new_entry_is_contiguous ==
                         IF new_entry.kind = "Node"
                         THEN new_entry.index = prev_index + 1
                         ELSE FALSE
                 IN IF prev_term_matches /\ new_entry_is_contiguous
                    THEN [log |-> SubSeq(lg, 1, prev_index + 1)
                                      \o <<new_entry>>,
                          returned |-> TRUE]
                    ELSE [log |-> lg, returned |-> FALSE]

\* Mutant: an empty list of entries returns prev_term_matches.
AppendEntriesCheckedHeartbeat(lg, prev_index, prev_term, entries) ==
    IF prev_index >= Len(lg) THEN [log |-> lg, returned |-> FALSE]
    ELSE LET prev_entry == lg[prev_index + 1]
             prev_term_matches ==
                 IF prev_entry.kind = "Root" THEN TRUE
                 ELSE prev_entry.term = prev_term
                          /\ prev_entry.index = prev_index
         IN IF entries = <<>>
            THEN [log |-> lg, returned |-> prev_term_matches]
            ELSE LET new_entry == Head(entries)
                     new_entry_is_contiguous ==
                         IF new_entry.kind = "Node"
                         THEN new_entry.index = prev_index + 1
                         ELSE FALSE
                 IN IF prev_term_matches /\ new_entry_is_contiguous
                    THEN [log |-> SubSeq(lg, 1, prev_index + 1) \o entries,
                          returned |-> TRUE]
                    ELSE [log |-> lg, returned |-> FALSE]

\* Mutant: the entries are appended without the truncate.
AppendEntriesKeepSuffix(lg, prev_index, prev_term, entries) ==
    IF prev_index >= Len(lg) THEN [log |-> lg, returned |-> FALSE]
    ELSE LET prev_entry == lg[prev_index + 1]
             prev_term_matches ==
                 IF prev_entry.kind = "Root" THEN TRUE
                 ELSE prev_entry.term = prev_term
                          /\ prev_entry.index = prev_index
         IN IF entries = <<>> THEN [log |-> lg, returned |-> TRUE]
            ELSE LET new_entry == Head(entries)
                     new_entry_is_contiguous ==
                         IF new_entry.kind = "Node"
                         THEN new_entry.index = prev_index + 1
                         ELSE FALSE
                 IN IF prev_term_matches /\ new_entry_is_contiguous
                    THEN [log |-> lg \o entries, returned |-> TRUE]
                    ELSE [log |-> lg, returned |-> FALSE]

\* Mutant: truncate(prev_index), which drops the entry at prev_index too.
AppendEntriesTruncateAtPrev(lg, prev_index, prev_term, entries) ==
    IF prev_index >= Len(lg) THEN [log |-> lg, returned |-> FALSE]
    ELSE LET prev_entry == lg[prev_index + 1]
             prev_term_matches ==
                 IF prev_entry.kind = "Root" THEN TRUE
                 ELSE prev_entry.term = prev_term
                          /\ prev_entry.index = prev_index
         IN IF entries = <<>> THEN [log |-> lg, returned |-> TRUE]
            ELSE LET new_entry == Head(entries)
                     new_entry_is_contiguous ==
                         IF new_entry.kind = "Node"
                         THEN new_entry.index = prev_index + 1
                         ELSE FALSE
                 IN IF prev_term_matches /\ new_entry_is_contiguous
                    THEN [log |-> SubSeq(lg, 1, prev_index) \o entries,
                          returned |-> TRUE]
                    ELSE [log |-> lg, returned |-> FALSE]

\* Mutant: entries are taken only at the end of the log, never over a
\* suffix.
AppendEntriesOnlyAtEnd(lg, prev_index, prev_term, entries) ==
    IF prev_index >= Len(lg) THEN [log |-> lg, returned |-> FALSE]
    ELSE LET prev_entry == lg[prev_index + 1]
             prev_term_matches ==
                 IF prev_entry.kind = "Root" THEN TRUE
                 ELSE prev_entry.term = prev_term
                          /\ prev_entry.index = prev_index
         IN IF entries = <<>> THEN [log |-> lg, returned |-> TRUE]
            ELSE LET new_entry == Head(entries)
                     new_entry_is_contiguous ==
                         IF new_entry.kind = "Node"
                         THEN new_entry.index = prev_index + 1
                         ELSE FALSE
                     taken == /\ prev_term_matches
                              /\ new_entry_is_contiguous
                              /\ Len(lg) = prev_index + 1
                 IN IF taken
                    THEN [log |-> lg \o entries, returned |-> TRUE]
                    ELSE [log |-> lg, returned |-> FALSE]

AppendEntries(lg, prev_index, prev_term, entries) ==
    IF prev_index >= Len(lg) THEN [log |-> lg, returned |-> FALSE]
    ELSE LET prev_entry == lg[prev_index + 1]
             prev_term_matches ==
                 IF prev_entry.kind = "Root" THEN TRUE
                 ELSE prev_entry.term = prev_term
                          /\ prev_entry.index = prev_index
         IN IF entries = <<>> THEN [log |-> lg, returned |-> TRUE]
            ELSE LET new_entry == Head(entries)
                     new_entry_is_contiguous ==
                         IF new_entry.kind = "Node"
                         THEN new_entry.index = prev_index + 1
                         ELSE FALSE
                 IN IF prev_term_matches /\ new_entry_is_contiguous
                    THEN [log |-> SubSeq(lg, 1, prev_index + 1) \o entries,
                          returned |-> TRUE]
                    ELSE [log |-> lg, returned |-> FALSE]

(* raft_message.rs: RaftMessage and its body *)

Body(id, term, log_length) ==
    [id |-> id, current_term |-> term, log_length |-> log_length]

RequestVote(b) == [kind |-> "RequestVote", body |-> b]

VoteForCandidate(b) == [kind |-> "VoteForCandidate", body |-> b]

RejectCandidateVote(b) == [kind |-> "RejectCandidateVote", body |-> b]

(* lib.rs: TestRaftChannel, the one implemented Channel (Vec push / pop) *)

Push(queue, message) == Append(queue, message)

\* pop() on a non-empty queue: the last element, and the queue without it.
PopMessage(queue) == queue[Len(queue)]

PopRest(queue) == SubSeq(queue, 1, Len(queue) - 1)

AllMessages(queue) == queue

(* raft_channel.rs: the Channel trait over its two implementations.  A    *)
(* channel is [impl, queue]; a call gives the channel it leaves, what it   *)
(* returned (pop: <<>> for None, <<message>> for Some(message)), and       *)
(* whether it panicked.  Every method of RaftChannel is todo!().           *)

ChannelImpls == {"TestRaftChannel", "RaftChannel"}

ChannelPush(ch, message) ==
    IF ch.impl = "RaftChannel"
    THEN [channel |-> ch, returned |-> <<>>, panicked |-> TRUE]
    ELSE [channel |-> [ch EXCEPT !.queue = Push(@, message)],
          returned |-> <<>>, panicked |-> FALSE]

ChannelPop(ch) ==
    IF ch.impl = "RaftChannel"
    THEN [channel |-> ch, returned |-> <<>>, panicked |-> TRUE]
    ELSE IF ch.queue = <<>>
    THEN [channel |-> ch, returned |-> <<>>, panicked |-> FALSE]
    ELSE [channel |-> [ch EXCEPT !.queue = PopRest(@)],
          returned |-> <<PopMessage(ch.queue)>>, panicked |-> FALSE]

ChannelAllMessages(ch) ==
    IF ch.impl = "RaftChannel"
    THEN [channel |-> ch, returned |-> <<>>, panicked |-> TRUE]
    ELSE [channel |-> ch, returned |-> AllMessages(ch.queue),
          panicked |-> FALSE]

(* raft_temporal.rs: RaftTimer *)

TimerFrom(timeout) == [default_timeout |-> timeout, ticks_left |-> timeout]

\* Mutant: the timer is rearmed by the tick that would have read 0.
TimerTickRearmAtOne(t) ==
    [t EXCEPT !.ticks_left =
        IF t.ticks_left > 1 THEN t.ticks_left - 1 ELSE t.default_timeout]

TimerTick(t) ==
    [t EXCEPT !.ticks_left =
        IF t.ticks_left >= 1 THEN t.ticks_left - 1 ELSE t.default_timeout]

----------------------------------------------------------------------------
(* raft_buddy.rs: impl RaftBuddy.  The methods work on a record st, the     *)
(* node a call of tick is made on:                                         *)
(*   id, role, current_term, log, votes_received: the fields of self;      *)
(*   channel: all queues of the topology (self.topology);                  *)
(*   panicked: whether the call has unwound through a panic.               *)

\* Mutant: the comparison stops at the terms, without then_with.
CompareTermsOnly(st, b) ==
    IF st.current_term < b.current_term THEN "Less"
    ELSE IF st.current_term > b.current_term THEN "Greater"
    ELSE "Equal"

\* self.current_term.cmp(&current_term)
\*     .then_with(|| self.log.len().cmp(&log_length))
CompareToCandidate(st, b) ==
    IF st.current_term < b.current_term THEN "Less"
    ELSE IF st.current_term > b.current_term THEN "Greater"
    ELSE IF Len(st.log) < b.log_length THEN "Less"
    ELSE IF Len(st.log) > b.log_length THEN "Greater"
    ELSE "Equal"

\* get_channel(id).borrow_mut(): panics when id is no key of the topology
\* (expect), or is the node itself, whose queue process_inbox has borrowed.
CanBorrow(st, id) == id \in DOMAIN st.channel /\ id # st.id

SendTo(st, id, message) ==
    IF CanBorrow(st, id)
    THEN [st EXCEPT !.channel[id] = Push(@, message)]
    ELSE [st EXCEPT !.panicked = TRUE]

AcceptCandidate(st, candidate_id) ==
    SendTo(st, candidate_id,
           VoteForCandidate(Body(st.id, st.current_term, Len(st.log))))

RejectCandidate(st, candidate_id) ==
    SendTo(st, candidate_id,
           RejectCandidateVote(Body(st.id, st.current_term, Len(st.log))))

IsCandidate(st) == st.role = "Candidate"

IsLeader(st) == st.role = "Leader"

\* Mutant: half of the topology counts as a majority (no + 1).
ReceivedHalfOfVotes(st) ==
    LET majority == Cardinality(DOMAIN st.channel) \div 2
        received == Cardinality({id \in DOMAIN st.votes_received :
                        st.votes_received[id].kind = "VoteForCandidate"})
    IN received >= majority

ReceivedMajorityVotes(st) ==
    LET majority == (Cardinality(DOMAIN st.channel) \div 2) + 1
        received == Cardinality({id \in DOMAIN st.votes_received :
                        st.votes_received[id].kind = "VoteForCandidate"})
    IN received >= majority

BecomeLeader(st) == [st EXCEPT !.role = "Leader"]

\* Mutant: a new candidacy starts a new term, as in canonical Raft.
BecomeCandidateInNextTerm(st) ==
    [st EXCEPT !.role = "Candidate", !.current_term = @ + 1]

\* Mutant: a new candidacy starts with no votes recorded.
BecomeCandidateWithFreshTally(st) ==
    [st EXCEPT !.role = "Candidate", !.votes_received = <<>>]

BecomeCandidate(st) == [st EXCEPT !.role = "Candidate"]

\* Mutant: the vote is recorded over the one the sender gave before
\* (insert in place of entry().or_insert()).
RecordLatestVote(st, id, vote) ==
    [st EXCEPT !.votes_received =
        [k \in DOMAIN @ \cup {id} |-> IF k = id THEN vote ELSE @[k]]]

\* self.votes_received.entry(id).or_insert(vote)
RecordVote(st, id, vote) ==
    IF id \in DOMAIN st.votes_received
    THEN st
    ELSE [st EXCEPT !.votes_received = @ @@ (id :> vote)]

\* The RequestVote arm of process_inbox.
OnRequestVote(st, b) ==
    IF CompareToCandidate(st, b) = "Less"
    THEN RejectCandidate(st, b.id)
    ELSE AcceptCandidate(st, b.id)

\* Mutant: the vote is recorded and counted whatever the role.
OnVoteForCandidateInAnyRole(st, vote) ==
    LET voted == RecordVote(st, vote.body.id, vote)
    IN IF ReceivedMajorityVotes(voted) THEN BecomeLeader(voted)
       ELSE voted

\* The VoteForCandidate arm of process_inbox.
OnVoteForCandidate(st, vote) ==
    IF IsCandidate(st)
    THEN LET voted == RecordVote(st, vote.body.id, vote)
         IN IF ReceivedMajorityVotes(voted) THEN BecomeLeader(voted)
            ELSE voted
    ELSE st

\* The RejectCandidateVote arm of process_inbox: todo!() whatever the
\* comparison gives.
OnRejectCandidateVote(st, rejection) == [st EXCEPT !.panicked = TRUE]

\* The match of process_inbox on one popped message.
ProcessMessage(st, message) ==
    IF message.kind = "RequestVote" THEN OnRequestVote(st, message.body)
    ELSE IF message.kind = "VoteForCandidate"
    THEN OnVoteForCandidate(st, message)
    ELSE OnRejectCandidateVote(st, message)

\* while let Some(message) = inbox.pop() { ... }: its first pops rounds.
RECURSIVE DrainSteps(_, _)
DrainSteps(st, pops) ==
    IF pops = 0 \/ st.panicked \/ st.channel[st.id] = <<>>
    THEN st
    ELSE LET message == PopMessage(st.channel[st.id])
             popped == [st EXCEPT !.channel[st.id] = PopRest(@)]
         IN DrainSteps(ProcessMessage(popped, message), pops - 1)

\* process_inbox: the loop runs until the queue is empty or a panic; a push
\* into the node's own queue panics, so Len(queue) rounds empty it.
ProcessInbox(st) == DrainSteps(st, Len(st.channel[st.id]))

HasMessages(st) == AllMessages(st.channel[st.id]) # <<>>

\* Mutant: the filter on the node's own id is dropped.
FollowerChannelsWithOwn(st) == {peer_id \in DOMAIN st.channel : TRUE}

FollowerChannels(st) == {peer_id \in DOMAIN st.channel : peer_id # st.id}

SolicitVotes(st) ==
    LET request == RequestVote(Body(st.id, st.current_term, Len(st.log)))
    IN [st EXCEPT !.channel =
           [id \in DOMAIN st.channel |->
               IF id \in FollowerChannels(st) THEN Push(st.channel[id], request)
               ELSE st.channel[id]]]

\* The node with id self, as a call of tick finds it.
Buddy(self) ==
    [id |-> self, role |-> role[self], timer |-> timer[self],
     current_term |-> current_term[self], log |-> log[self],
     votes_received |-> votes_received[self], channel |-> channel,
     panicked |-> FALSE]

\* Mutant: the timer's fire is acted on before the inbox is drained.
TickBuddyFireFirst(st) ==
    LET ticked == [st EXCEPT !.timer = TimerTick(@)]
        fired == IF ticked.timer.ticks_left = 0
                 THEN SolicitVotes(BecomeCandidate(ticked))
                 ELSE ticked
    IN IF HasMessages(fired) THEN ProcessInbox(fired) ELSE fired

\* The body of <RaftBuddy as Temporal>::tick.
TickBuddy(st) ==
    LET ticked == [st EXCEPT !.timer = TimerTick(@)]
        drained == IF HasMessages(ticked) THEN ProcessInbox(ticked)
                   ELSE ticked
    IN IF ~drained.panicked /\ drained.timer.ticks_left = 0
       THEN SolicitVotes(BecomeCandidate(drained))
       ELSE drained

\* One call of tick on node self.
Tick(self) ==
    LET after == TickBuddy(Buddy(self))
    IN /\ timer' = [timer EXCEPT ![self] = after.timer]
       /\ role' = [role EXCEPT ![self] = after.role]
       /\ current_term' = [current_term EXCEPT ![self] = after.current_term]
       /\ log' = [log EXCEPT ![self] = after.log]
       /\ votes_received' =
              [votes_received EXCEPT ![self] = after.votes_received]
       /\ channel' = after.channel
       /\ panicked' = after.panicked
       /\ ticks' = [ticks EXCEPT ![self] = @ + 1]
       /\ UNCHANGED <<topology, raft_log, mailbox, call, pending, delivered>>

----------------------------------------------------------------------------
(* The driver's calls outside tick *)

\* No call made yet.
NoCall == [op |-> "none", calls |-> 0]

\* No push made yet: the number of pushes made, and the pending ones by the
\* number of the push that made them.
NonePending == [pushes |-> 0, at |-> <<>>]

----------------------------------------------------------------------------
(* Construction *)

\* The fields every constructor leaves at Default::default(), for the
\* members ids of a topology of test channels.
InitBuddies(ids) ==
    /\ topology = ids
    /\ role = [id \in ids |-> "Follower"]
    /\ votes_received = [id \in ids |-> <<>>]
    /\ channel = [id \in ids |-> <<>>]
    /\ panicked = FALSE
    /\ ticks = [id \in ids |-> 0]
    /\ turn = 0
    /\ raft_log = DefaultLog
    /\ mailbox = [impl |-> "TestRaftChannel", queue |-> <<>>]
    /\ call = NoCall
    /\ pending = NonePending
    /\ delivered = {}

\* Vec<RaftBuddy>::from(topology) with timeouts base + index * step.
BuddiesFrom(ids, base, step) ==
    /\ InitBuddies(ids)
    /\ timer = [id \in ids |-> TimerFrom(base + (id * step))]
    /\ current_term = [id \in ids |-> 0]
    /\ log = [id \in ids |-> DefaultLog]

\* Nodes as From<Topology> builds them, with small timeouts.
Init ==
    \E base \in 1..MaxTimeoutBase, step \in 0..MaxTimeoutStep :
        BuddiesFrom(0..(NumBuddies - 1), base, step)

RECURSIVE SumOver(_, _)
SumOver(f, ids) ==
    IF ids = {} THEN 0
    ELSE LET id == CHOOSE x \in ids : TRUE
         IN f[id] + SumOver(f, ids \ {id})

\* The driver may call tick on any node, in any order.  A panic unwinds
\* into the driver and ends the run.
Next ==
    \E self \in topology :
        /\ ~panicked
        /\ SumOver(ticks, topology) < MaxTicks
        /\ Tick(self)
        /\ UNCHANGED turn

Spec == Init /\ [][Next]_vars

\* Mutant: every node gets the same timeout (index * 10 is dropped).
InitRoundsSameTimeout ==
    BuddiesFrom(0..(DefaultTopologySize - 1), TimeoutBase, 0)

\* Vec<RaftBuddy>::from(default_topology()), as the tests build it.
InitRounds ==
    BuddiesFrom(0..(DefaultTopologySize - 1), TimeoutBase, TimeoutStep)

\* The driver of the tests: rounds, every node once per round in id order.
NextRounds ==
    \E self \in topology :
        /\ ~panicked
        /\ turn = self
        /\ ticks[self] < MaxRounds
        /\ Tick(self)
        /\ turn' = (turn + 1) % Cardinality(topology)

SpecRounds == InitRounds /\ [][NextRounds]_vars

\* Topologies of one member and of two, their nodes as From<Topology>
\* builds them, with small timeouts.
InitSmall ==
    \E members \in {1, 2} :
        \E base \in 1..MaxTimeoutBase, step \in 0..MaxTimeoutStep :
            BuddiesFrom(0..(members - 1), base, step)

SpecSmall == InitSmall /\ [][Next]_vars

\* Two nodes built as struct literals with a term and a log of their own
\* (RaftBuddy { current_term, log, timer: 1.into(), ..Default::default() }).
InitTerms ==
    /\ InitBuddies(0..1)
    /\ timer = [id \in 0..1 |-> TimerFrom(1)]
    /\ current_term \in [0..1 -> 0..MaxTerm]
    /\ \E lens \in [0..1 -> 1..MaxLogLen] :
           log = [id \in 0..1 |-> LogOfLen(lens[id])]

SpecTerms == InitTerms /\ [][Next]_vars

\* The nodes of Vec<RaftBuddy>::from(default_topology()), the first of them
\* given timer: 1.into() and each a log of its own (RaftLog::from).
InitLogs ==
    /\ InitBuddies(0..(DefaultTopologySize - 1))
    /\ timer = [id \in topology |->
                   IF id = 0 THEN TimerFrom(1)
                   ELSE TimerFrom(TimeoutBase + (id * TimeoutStep))]
    /\ current_term = [id \in topology |-> 0]
    /\ \E lens \in [0..(DefaultTopologySize - 1) -> 1..MaxLogLen] :
           log = [id \in topology |-> LogOfLen(lens[id])]

SpecLogs == InitLogs /\ [][Next]_vars

\* test_candidate_becomes_leader and its two siblings: the nodes of
\* Vec<RaftBuddy>::from(default_topology()), then
\* candidate.timer.ticks_left = 1 on the first of them.
InitQuorum ==
    /\ InitBuddies(0..(DefaultTopologySize - 1))
    /\ timer = [id \in topology |->
                   [default_timeout |-> TimeoutBase + (id * TimeoutStep),
                    ticks_left |-> IF id = 0 THEN 1
                                   ELSE TimeoutBase + (id * TimeoutStep)]]
    /\ current_term = [id \in topology |-> 0]
    /\ log = [id \in topology |-> DefaultLog]

SpecQuorum == InitQuorum /\ [][Next]_vars

----------------------------------------------------------------------------
(* The driver of a RaftLog: calls of append_entries on RaftLog::default(), *)
(* as the tests of raft_log.rs make them.                                  *)

\* The entries handed to a call: len entries of one term, numbered from
\* first; the last of them as it should be, or Root, or numbered one too
\* high (for one entry: a first entry that is Root, or leaves a gap).
Entries(term, first, len, last) ==
    LET run == [k \in 1..len |-> Node(term, first + k - 1, "set x")]
    IN IF last = "root" THEN [run EXCEPT ![len] = Root]
       ELSE IF last = "gap" THEN [run EXCEPT ![len].index = @ + 1]
       ELSE run

EntriesAfter(prev_index) ==
    {<<>>} \cup
    {Entries(term, prev_index + 1, len, last) :
        term \in 0..MaxTerm, len \in 1..MaxRun,
        last \in {"node", "root", "gap"}}

\* One call log.append_entries(prev_index, prev_term, &entries).  The
\* call record keeps the arguments, the value returned, and whether the
\* call repeats the one before it, which returned true.
CallAppendEntries(prev_index, prev_term, entries) ==
    LET result == AppendEntries(raft_log, prev_index, prev_term, entries)
    IN /\ call.calls < MaxCalls
       /\ raft_log' = result.log
       /\ call' = [op |-> "append_entries",
                   calls |-> call.calls + 1,
                   prev_index |-> prev_index,
                   prev_term |-> prev_term,
                   entries |-> entries,
                   returned |-> result.returned,
                   again |-> /\ call.op = "append_entries"
                             /\ call.returned
                             /\ call.prev_index = prev_index
                             /\ call.prev_term = prev_term
                             /\ call.entries = entries]
       /\ UNCHANGED <<topology, role, timer, current_term, log,
                      votes_received, channel, panicked, ticks, turn,
                      mailbox, pending, delivered>>

\* No nodes: the log stands alone.
InitAppend == BuddiesFrom({}, TimeoutBase, TimeoutStep)

NextAppend ==
    \E prev_index \in 0..MaxLogLen, prev_term \in 0..MaxTerm :
        \E entries \in EntriesAfter(prev_index) :
            CallAppendEntries(prev_index, prev_term, entries)

SpecAppend == InitAppend /\ [][NextAppend]_vars

----------------------------------------------------------------------------
(* The driver of a channel: push, pop and all_messages through the Channel *)
(* trait, on a channel of either implementation.  pending keeps, by the    *)
(* number of the push, the messages pushed and not yet handed out, the     *)
(* latest push being the one a pop hands out.                              *)

MailboxMessages ==
    {RequestVote(Body(id, 0, 1)) : id \in 0..1} \cup
    {VoteForCandidate(Body(id, 0, 1)) : id \in 0..1} \cup
    {RejectCandidateVote(Body(id, 0, 1)) : id \in 0..1}

\* The number of the latest push still pending (0: none).
LatestPending(p) ==
    IF DOMAIN p.at = {} THEN 0
    ELSE CHOOSE n \in DOMAIN p.at : \A k \in DOMAIN p.at : k <= n

\* channel.borrow_mut().push(message)
DriverPush(message) ==
    LET done == ChannelPush(mailbox, message)
    IN /\ ~panicked
       /\ pending.pushes < MaxPushes
       /\ mailbox' = done.channel
       /\ panicked' = done.panicked
       /\ call' = [op |-> "push", calls |-> call.calls,
                   message |-> message, returned |-> done.returned]
       /\ pending' = [pushes |-> pending.pushes + 1,
                      at |-> pending.at @@ ((pending.pushes + 1) :> message)]
       /\ UNCHANGED <<topology, role, timer, current_term, log,
                      votes_received, channel, ticks, turn, raft_log,
                      delivered>>

\* channel.borrow_mut().pop()
DriverPop ==
    LET done == ChannelPop(mailbox)
        latest == LatestPending(pending)
    IN /\ ~panicked
       /\ mailbox' = done.channel
       /\ panicked' = done.panicked
       /\ call' = [op |-> "pop", calls |-> call.calls,
                   returned |-> done.returned]
       /\ pending' = [pending EXCEPT !.at =
                          [n \in DOMAIN @ \ {latest} |-> @[n]]]
       /\ UNCHANGED <<topology, role, timer, current_term, log,
                      votes_received, channel, ticks, turn, raft_log,
                      delivered>>

\* channel.borrow_mut().all_messages()
DriverAllMessages ==
    LET done == ChannelAllMessages(mailbox)
    IN /\ ~panicked
       /\ mailbox' = done.channel
       /\ panicked' = done.panicked
       /\ call' = [op |-> "all_messages", calls |-> call.calls,
                   returned |-> done.returned]
       /\ UNCHANGED <<topology, role, timer, current_term, log,
                      votes_received, channel, ticks, turn, raft_log,
                      pending, delivered>>

\* A channel of either implementation, Default::default(), and no nodes.
InitMailbox ==
    /\ topology = {}
    /\ role = <<>>
    /\ timer = <<>>
    /\ current_term = <<>>
    /\ log = <<>>
    /\ votes_received = <<>>
    /\ channel = <<>>
    /\ panicked = FALSE
    /\ ticks = <<>>
    /\ turn = 0
    /\ raft_log = DefaultLog
    /\ mailbox \in [impl : ChannelImpls, queue : {<<>>}]
    /\ call = NoCall
    /\ pending = NonePending
    /\ delivered = {}

NextMailbox ==
    \/ \E message \in MailboxMessages : DriverPush(message)
    \/ DriverPop
    \/ DriverAllMessages

SpecMailbox == InitMailbox /\ [][NextMailbox]_vars

----------------------------------------------------------------------------
(* The driver of one node: it ticks buddies.first() and pushes votes of    *)
(* its own making into that node's queue, as the tests push requests.      *)
(* delivered keeps every vote pushed, with the number of ticks the node    *)
(* had had and the role it had when the vote was pushed.  The node handles *)
(* the vote in its next tick, in that role or, a Candidate, as the Leader  *)
(* the votes before it made it: the drain comes before the timer's fire.   *)

\* buddies.first(): the node of the lowest id.
First(ids) == CHOOSE id \in ids : \A other \in ids : id <= other

\* topology.get(&to).borrow_mut().push(vote)
DeliverVote(to, vote) ==
    LET entry == [to |-> to, message |-> vote, at |-> ticks[to],
                  role |-> role[to]]
    IN /\ ~panicked
       /\ entry \notin delivered
       /\ Cardinality(delivered) < MaxPushes
       /\ SumOver(ticks, topology) + Cardinality(delivered) < MaxTicks
       /\ channel' = [channel EXCEPT ![to] = Push(@, vote)]
       /\ delivered' = delivered \cup {entry}
       /\ UNCHANGED <<topology, role, timer, current_term, log,
                      votes_received, panicked, ticks, turn, raft_log,
                      mailbox, call, pending>>

\* Nodes built as struct literals with timer: 1.into().
InitVotes ==
    /\ InitBuddies(0..(NumBuddies - 1))
    /\ timer = [id \in topology |-> TimerFrom(1)]
    /\ current_term = [id \in topology |-> 0]
    /\ log = [id \in topology |-> DefaultLog]

NextVotes ==
    \/ \E sender \in topology \ {First(topology)}, term \in {0, MaxTerm} :
           DeliverVote(First(topology),
                       VoteForCandidate(Body(sender, term, 1)))
    \/ /\ ~panicked
       /\ SumOver(ticks, topology) + Cardinality(delivered) < MaxTicks
       /\ Tick(First(topology))
       /\ UNCHANGED turn

SpecVotes == InitVotes /\ [][NextVotes]_vars

----------------------------------------------------------------------------
(* Vocabulary of the properties *)

Leaders(r) == {id \in DOMAIN r : r[id] = "Leader"}

\* The step is a call of tick on node self.
Ticked(self) == ticks'[self] = ticks[self] + 1

\* The timer of node self fired in the call of tick this step makes.
Fired(self) == Ticked(self) /\ timer'[self].ticks_left = 0

\* The messages of queue q, most recently pushed first: the order pop
\* returns them in.
PopOrder(q) == [k \in 1..Len(q) |-> q[Len(q) + 1 - k]]

\* The smallest number of members that is more than half of n.
QuorumOf(n) == CHOOSE q \in 1..(n + 1) : 2 * q > n /\ 2 * (q - 1) <= n

----------------------------------------------------------------------------
(* C1: election safety.  In every state reached by calls of tick in any    *)
(* order, at most one node of the topology has role Leader.                *)
C1_ElectionSafety == Cardinality(Leaders(role)) <= 1

(* C2: convergence.  With the nodes of Vec<RaftBuddy>::from(topology)      *)
(* ticked in rounds, a state with exactly one Leader is reached, and from  *)
(* then on every state has exactly one Leader: no step leaves the states   *)
(* with exactly one Leader.                                                *)
C2_OneLeaderFromThenOn ==
    [][Cardinality(Leaders(role)) = 1 => Cardinality(Leaders(role')) = 1]_vars

(* C6: first candidate.  In the rounds of the five nodes with timeouts     *)
(* 100 + 10 * index, no node has left Follower before node 0 has been      *)
(* ticked TimeoutBase times; that tick makes node 0 Candidate, and until   *)
(* its next tick, so at the end of that round, all others are Follower.    *)
C6_FirstCandidate ==
    /\ ticks[0] < TimeoutBase => \A id \in topology : role[id] = "Follower"
    /\ ticks[0] = TimeoutBase =>
           /\ role[0] = "Candidate"
           /\ \A id \in topology \ {0} : role[id] = "Follower"

\* The round in which node 0 became Candidate has ended.
C6_Witness ==
    /\ \A id \in topology : ticks[id] = TimeoutBase
    /\ role[0] = "Candidate"
    /\ turn = 0

(* C9: timer schedule.  After k ticks a timer built with timeout T reads   *)
(* T - (k mod (T + 1)): 0 after T ticks, T again one tick later, 0 every   *)
(* T + 1 ticks, and always within 0..T.                                    *)
C9_TimerSchedule ==
    \A id \in topology :
        LET T == timer[id].default_timeout
        IN /\ timer[id].ticks_left = T - (ticks[id] % (T + 1))
           /\ timer[id].ticks_left \in 0..T

\* A timer reads 0 for the second time, T + 1 ticks after the first.
C9_Witness ==
    \E id \in topology :
        /\ ticks[id] = (2 * timer[id].default_timeout) + 1
        /\ timer[id].ticks_left = 0

(* C10: term and log are frozen.  No call of tick changes any node's       *)
(* current_term or log, so every node keeps the term 0 and the Root-only   *)
(* log it was built with.                                                  *)
C10_TermAndLogFrozen ==
    /\ [](\A id \in topology :
              current_term[id] = 0 /\ log[id] = DefaultLog)
    /\ [][current_term' = current_term /\ log' = log]_vars

\* A node has been Candidate, collected a majority and become Leader, and
\* its peers have answered its RequestVote.
C10_Witness ==
    \E id \in topology :
        /\ role[id] = "Leader"
        /\ current_term[id] = 0
        /\ log[id] = DefaultLog

----------------------------------------------------------------------------
(* What a drain of queue q handles: its messages in pop order, up to the   *)
(* first RejectCandidateVote, where the drain ends in todo!().             *)
RECURSIVE UpToRejection(_)
UpToRejection(s) ==
    IF s = <<>> \/ Head(s).kind = "RejectCandidateVote" THEN <<>>
    ELSE <<Head(s)>> \o UpToRejection(Tail(s))

Handled(q) == UpToRejection(PopOrder(q))

\* What the step pushed into the queue of node id.
Pushed(id) == SubSeq(channel'[id], Len(channel[id]) + 1, Len(channel'[id]))

IsRequest(m) == m.kind = "RequestVote"

IsAnswer(m) == m.kind # "RequestVote"

OwnBody(self) == Body(self, current_term[self], Len(log[self]))

(* C3: quorum rule.  A Candidate draining its inbox is Leader after the    *)
(* k-th message iff one of the first k messages is a VoteForCandidate     *)
(* after which the recorded voters (those recorded before, and the senders *)
(* of the votes handled so far) number QuorumOf(n), n the size of the      *)
(* topology: at the vote that completes the quorum and not before.  A pass *)
(* that ends with fewer recorded voters leaves it Candidate.               *)
C3_QuorumRule ==
    [][\A self \in topology :
          Ticked(self) /\ role[self] = "Candidate" =>
              LET inbox == Handled(channel[self])
                  quorum == QuorumOf(Cardinality(topology))
                  VotersAt(k) ==
                      DOMAIN votes_received[self] \cup
                          {inbox[j].body.id : j \in
                              {i \in 1..k : inbox[i].kind = "VoteForCandidate"}}
                  Completes(k) ==
                      /\ inbox[k].kind = "VoteForCandidate"
                      /\ Cardinality(VotersAt(k)) >= quorum
                  LeaderAt(k) == \E j \in 1..k : Completes(j)
              IN /\ \A k \in 0..Len(inbox) :
                        DrainSteps(Buddy(self), k).role =
                            IF LeaderAt(k) THEN "Leader" ELSE "Candidate"
                 /\ role'[self] =
                        IF Fired(self) /\ ~panicked' THEN "Candidate"
                        ELSE IF LeaderAt(Len(inbox)) THEN "Leader"
                        ELSE "Candidate"
                 /\ Cardinality(DOMAIN votes_received'[self]) < quorum =>
                        role'[self] = "Candidate"
                 /\ ~LeaderAt(Len(inbox)) =>
                        DOMAIN votes_received'[self] = VotersAt(Len(inbox))
      ]_vars

\* A pass has ended with one vote short of the quorum: still Candidate.
C3_Witness ==
    \E id \in topology :
        /\ role[id] = "Candidate"
        /\ ticks[id] >= 2
        /\ channel[id] = <<>>
        /\ Cardinality(DOMAIN votes_received[id]) + 1 =
               QuorumOf(Cardinality(topology))

(* C4: RequestVote handling.  For every RequestVote a call of tick         *)
(* handles, in the order handled, the node pushes one answer into the      *)
(* sender's queue and nothing else but its own solicitation: a             *)
(* RejectCandidateVote iff its own (term, log length) is lexicographically *)
(* less than the request's, a VoteForCandidate otherwise, carrying its own *)
(* id, term and log length.                                                *)
C4_RequestVoteAnswered ==
    [][\A self \in topology :
          Ticked(self) =>
              LET own == OwnBody(self)
                  Behind(b) ==
                      \/ own.current_term < b.current_term
                      \/ /\ own.current_term = b.current_term
                         /\ own.log_length < b.log_length
                  Answer(b) == IF Behind(b) THEN RejectCandidateVote(own)
                               ELSE VoteForCandidate(own)
                  From(id, m) == IsRequest(m) /\ m.body.id = id
              IN \A id \in topology \ {self} :
                     LET requests ==
                             SelectSeq(Handled(channel[self]),
                                       LAMBDA m : From(id, m))
                     IN /\ SubSeq(channel'[id], 1, Len(channel[id])) =
                               channel[id]
                        /\ SelectSeq(Pushed(id), IsAnswer) =
                               [k \in 1..Len(requests) |->
                                   Answer(requests[k].body)]
      ]_vars

\* Both answers have been given: a queue holds a rejection and a queue
\* holds a vote.
C4_Witness ==
    /\ \E id \in topology : \E k \in 1..Len(channel[id]) :
           channel[id][k].kind = "RejectCandidateVote"
    /\ \E id \in topology : \E k \in 1..Len(channel[id]) :
           channel[id][k].kind = "VoteForCandidate"

(* C5: broadcast on fire.  A call of tick in which the timer fires pushes  *)
(* exactly one RequestVote, with the node's own id, term and log length,   *)
(* into the queue of every other member; a call in which it does not fire  *)
(* pushes no RequestVote; no call pushes anything into the node's own      *)
(* queue.                                                                  *)
C5_BroadcastOnFire ==
    [][\A self \in topology :
          Ticked(self) =>
              /\ \A id \in topology \ {self} :
                     SelectSeq(Pushed(id), IsRequest) =
                         IF Fired(self) THEN <<RequestVote(OwnBody(self))>>
                         ELSE <<>>
              /\ \E k \in 0..Len(channel[self]) :
                     channel'[self] = SubSeq(channel[self], 1, k)
      ]_vars

(* C7: VoteRejected handling is total.  A call of tick on a node whose     *)
(* inbox holds a RejectCandidateVote does not panic; when the inbox holds  *)
(* nothing else, the node adopts the largest term among the rejections and *)
(* becomes Follower if that term exceeds its own, and otherwise keeps its  *)
(* role, term, log and recorded votes (a firing timer still makes it       *)
(* Candidate).                                                             *)
C7_VoteRejectedIsTotal ==
    [][\A self \in topology :
          /\ Ticked(self)
          /\ \E k \in 1..Len(channel[self]) :
                 channel[self][k].kind = "RejectCandidateVote"
          => /\ ~panicked'
             /\ (\A k \in 1..Len(channel[self]) :
                     channel[self][k].kind = "RejectCandidateVote") =>
                    LET terms == {channel[self][k].body.current_term :
                                     k \in 1..Len(channel[self])}
                        top == CHOOSE t \in terms : \A u \in terms : u <= t
                        after == IF top > current_term[self] THEN "Follower"
                                 ELSE role[self]
                    IN /\ current_term'[self] =
                              IF top > current_term[self] THEN top
                              ELSE current_term[self]
                       /\ role'[self] =
                              IF Fired(self) THEN "Candidate" ELSE after
                       /\ log'[self] = log[self]
                       /\ votes_received'[self] = votes_received[self]
      ]_vars

(* C8: fire from any role.  A call of tick in which the timer fires leaves *)
(* the node Candidate, whatever its role before and whatever it handled in *)
(* the call, and the last message in every other member's queue is then    *)
(* its RequestVote: a Leader whose timer fires campaigns again.            *)
C8_FireMakesCandidate ==
    [][\A self \in topology :
          Fired(self) =>
              /\ role'[self] = "Candidate"
              /\ role[self] = "Leader" =>
                     \A id \in topology \ {self} :
                         /\ channel'[id] # <<>>
                         /\ channel'[id][Len(channel'[id])] =
                                RequestVote(OwnBody(self))
      ]_vars

----------------------------------------------------------------------------
(* Properties of append_entries *)

\* The step is a call of append_entries.
Appended == call'.op = "append_entries" /\ call'.calls = call.calls + 1

\* Every entry after the Root is a Node numbered by its position.
WellIndexed(lg) ==
    \A i \in 2..Len(lg) : lg[i].kind = "Node" /\ lg[i].index = i - 1

\* The k-th of the entries is a Node numbered prev_index + k.
Contiguous(entries, prev_index) ==
    \A k \in 1..Len(entries) :
        entries[k].kind = "Node" /\ entries[k].index = prev_index + k

(* C11: failure leaves the log unchanged.  A call returns false when there *)
(* is no entry at prev_index, or when entries is non-empty and the entry   *)
(* at prev_index is a Node of another term or another index, or the first  *)
(* new entry is Root or is not numbered prev_index + 1; and a call that    *)
(* returns false leaves the log as it was.                                 *)
C11_FailureLeavesLog ==
    [][Appended =>
          LET p == call'.prev_index
              t == call'.prev_term
              es == call'.entries
              absent == p >= Len(raft_log)
              mismatch == /\ ~absent
                          /\ raft_log[p + 1].kind = "Node"
                          /\ \/ raft_log[p + 1].term # t
                             \/ raft_log[p + 1].index # p
              gap == \/ es[1].kind = "Root"
                     \/ es[1].kind = "Node" /\ es[1].index # p + 1
          IN /\ absent \/ (es # <<>> /\ (mismatch \/ gap))
                    => ~call'.returned
             /\ ~call'.returned => raft_log' = raft_log
      ]_vars

\* A call with entries has failed on the term of the entry at prev_index,
\* a Node of the log the call has left.
C11_Witness ==
    /\ call.op = "append_entries"
    /\ ~call.returned
    /\ call.entries # <<>>
    /\ call.prev_index < Len(raft_log)
    /\ raft_log[call.prev_index + 1].kind = "Node"
    /\ raft_log[call.prev_index + 1].term # call.prev_term

(* C12: success effect.  With entries non-empty, the entry at prev_index   *)
(* Root or a Node of term prev_term and index prev_index, and the first    *)
(* new entry numbered prev_index + 1, the call returns true and leaves     *)
(* old_log[0..=prev_index] followed by the entries: the prefix untouched,  *)
(* the old suffix gone, the last supplied entry last.                      *)
C12_SuccessEffect ==
    [][Appended =>
          LET p == call'.prev_index
              t == call'.prev_term
              es == call'.entries
              matches == \/ raft_log[p + 1].kind = "Root"
                         \/ /\ raft_log[p + 1].kind = "Node"
                            /\ raft_log[p + 1].term = t
                            /\ raft_log[p + 1].index = p
          IN /\ es # <<>>
             /\ p < Len(raft_log)
             /\ matches
             /\ es[1].kind = "Node"
             /\ es[1].index = p + 1
             => /\ call'.returned
                /\ Len(raft_log') = p + 1 + Len(es)
                /\ \A i \in 1..(p + 1) : raft_log'[i] = raft_log[i]
                /\ \A k \in 1..Len(es) : raft_log'[p + 1 + k] = es[k]
                /\ raft_log'[Len(raft_log')] = es[Len(es)]
      ]_vars

\* A second call has succeeded behind a Node that an earlier call put in.
C12_Witness ==
    /\ call.op = "append_entries"
    /\ call.returned
    /\ call.entries # <<>>
    /\ call.prev_index >= 1
    /\ Len(raft_log) = call.prev_index + 1 + Len(call.entries)

(* C13: heartbeat.  A call with no entries returns true and leaves the log *)
(* unchanged whenever there is an entry at prev_index, whatever prev_term  *)
(* is.                                                                     *)
C13_Heartbeat ==
    [][Appended /\ call'.entries = <<>> /\ call'.prev_index < Len(raft_log)
          => call'.returned /\ raft_log' = raft_log
      ]_vars

\* A heartbeat has returned true on a Node of another term.
C13_Witness ==
    /\ call.op = "append_entries"
    /\ call.entries = <<>>
    /\ call.returned
    /\ raft_log[call.prev_index + 1].kind = "Node"
    /\ raft_log[call.prev_index + 1].term # call.prev_term

(* C14: log index invariant.  After any calls of append_entries on the     *)
(* default log, every entry after the Root is a Node whose index is its    *)
(* position.                                                               *)
C14_LogIndexInvariant == WellIndexed(raft_log)

(* C14, as the code has it: a call whose entries are themselves Nodes      *)
(* numbered prev_index + 1, prev_index + 2, ... keeps a log in which every *)
(* entry after the Root is a Node numbered by its position in that shape.  *)
(* Only the first entry's index is checked by the call.                    *)
C14_ContiguousEntriesKeepIndex ==
    [][/\ Appended
       /\ WellIndexed(raft_log)
       /\ Contiguous(call'.entries, call'.prev_index)
       => WellIndexed(raft_log')
      ]_vars

\* A call has put two contiguous entries into a log that is well indexed.
C14_Witness ==
    /\ call.op = "append_entries"
    /\ call.returned
    /\ Len(call.entries) >= 2
    /\ Contiguous(call.entries, call.prev_index)
    /\ WellIndexed(raft_log)

(* C15: Root sentinel.  After any calls of append_entries on the default   *)
(* log, the log is non-empty and its first element is Root.                *)
C15_RootSentinel == raft_log # <<>> /\ raft_log[1] = Root

\* A second call has succeeded at prev_index 0, cutting the log back to
\* its Root.
C15_Witness ==
    /\ call.op = "append_entries"
    /\ call.calls >= 2
    /\ call.returned
    /\ call.prev_index = 0
    /\ call.entries # <<>>

(* C20: idempotent on success.  A call that repeats, with the same         *)
(* arguments, the call before it, which returned true, returns true and    *)
(* leaves the log as the first call left it; and after every call that     *)
(* returned true the same call again would return true and change          *)
(* nothing.                                                                *)
C20_IdempotentOnSuccess ==
    [][Appended =>
          /\ call'.again => call'.returned /\ raft_log' = raft_log
          /\ call'.returned =>
                 AppendEntries(raft_log', call'.prev_index, call'.prev_term,
                               call'.entries)
                     = [log |-> raft_log', returned |-> TRUE]
      ]_vars

\* Entries have been sent again over the suffix they had made.
C20_Witness ==
    /\ call.op = "append_entries"
    /\ call.again
    /\ call.entries # <<>>
    /\ Len(raft_log) = call.prev_index + 1 + Len(call.entries)

----------------------------------------------------------------------------
(* Properties of the channel *)

\* The pending messages in the order they were pushed.
RECURSIVE InPushOrder(_)
InPushOrder(at) ==
    IF DOMAIN at = {} THEN <<>>
    ELSE LET n == CHOOSE k \in DOMAIN at : \A j \in DOMAIN at : j <= k
         IN InPushOrder([k \in DOMAIN at \ {n} |-> at[k]]) \o <<at[n]>>

(* C16: mailbox contract.  No call of push, pop or all_messages panics;    *)
(* pop returns the latest message pushed and not yet popped and removes    *)
(* that message only, or returns nothing and changes nothing when none is  *)
(* pending; all_messages returns the pending messages in push order and    *)
(* removes none.                                                           *)
C16_MailboxContract ==
    [][/\ ~panicked'
       /\ call'.op = "pop" =>
              LET latest == LatestPending(pending)
              IN IF latest = 0
                 THEN call'.returned = <<>> /\ mailbox' = mailbox
                 ELSE /\ call'.returned = <<pending.at[latest]>>
                      /\ mailbox'.queue = InPushOrder(pending'.at)
       /\ call'.op = "all_messages" =>
              /\ call'.returned = InPushOrder(pending.at)
              /\ mailbox' = mailbox
       /\ call'.op = "push" =>
              mailbox'.queue = InPushOrder(pending'.at)
      ]_vars

----------------------------------------------------------------------------
(* Properties of the drain *)

IsVote(m) == m.kind = "VoteForCandidate"

(* C17: drain per tick.  A call of tick leaves the node's own queue empty; *)
(* each round of the drain takes one message off it and puts none on it,   *)
(* so the drain ends after as many pops as the queue held; it answers each *)
(* RequestVote it held once; and what the peers' queues held stays there,  *)
(* the answers behind it.                                                  *)
C17_DrainPerTick ==
    [][\A self \in topology :
          Ticked(self) =>
              LET held == Len(channel[self])
                  Answers(id) == Len(SelectSeq(Pushed(id), IsAnswer))
                  RequestsOf(id) ==
                      Len(SelectSeq(channel[self],
                                    LAMBDA m : IsRequest(m) /\ m.body.id = id))
              IN /\ channel'[self] = <<>>
                 /\ \A k \in 0..held :
                        Len(DrainSteps(Buddy(self), k).channel[self]) = held - k
                 /\ \A id \in topology \ {self} :
                        /\ SubSeq(channel'[id], 1, Len(channel[id])) =
                               channel[id]
                        /\ Answers(id) = RequestsOf(id)
      ]_vars

(* C18: VoteForCandidate is acted on only by a Candidate.  A node that is  *)
(* Follower or Leader when the drain comes to a VoteForCandidate takes the *)
(* message off its queue and keeps its role and its votes_received; so a   *)
(* call of tick on a Follower or Leader whose queue holds only votes       *)
(* empties the queue and leaves votes_received as it was, and the role too *)
(* unless the timer fires.                                                 *)
C18_VoteOnlyForCandidate ==
    [][\A self \in topology :
          Ticked(self) =>
              LET inbox == PopOrder(channel[self])
              IN /\ \A k \in 1..Len(inbox) :
                        LET before == DrainSteps(Buddy(self), k - 1)
                            after == DrainSteps(Buddy(self), k)
                        IN /\ IsVote(inbox[k])
                           /\ before.role \in {"Follower", "Leader"}
                           /\ ~before.panicked
                           => /\ after.role = before.role
                              /\ after.votes_received = before.votes_received
                              /\ after.channel[self] =
                                     PopRest(before.channel[self])
                              /\ ~after.panicked
                 /\ /\ role[self] \in {"Follower", "Leader"}
                    /\ \A k \in 1..Len(inbox) : IsVote(inbox[k])
                    => /\ votes_received'[self] = votes_received[self]
                       /\ channel'[self] = <<>>
                       /\ role'[self] = IF Fired(self) THEN "Candidate"
                                        ELSE role[self]
      ]_vars

\* The node has been ticked after a vote was pushed to it as Follower and
\* after a vote was pushed to it as Leader: it has handled both.
C18_Witness ==
    \E id \in topology :
        /\ ~panicked
        /\ channel[id] = <<>>
        /\ \E d \in delivered :
               d.to = id /\ d.role = "Follower" /\ d.at < ticks[id]
        /\ \E d \in delivered :
               d.to = id /\ d.role = "Leader" /\ d.at < ticks[id]

(* C19: one vote per sender.  votes_received holds one vote under each     *)
(* sender id, the sender's own; a call of tick keeps every vote recorded   *)
(* before it, records for a new sender the first of its votes the drain    *)
(* comes to, and records no one else; and a Candidate for which the        *)
(* senders recorded and the senders of the votes in its queue are fewer    *)
(* than the quorum is not Leader after the call, however many votes they   *)
(* sent.                                                                   *)
C19_OneVotePerSender ==
    [][\A self \in topology :
          Ticked(self) /\ ~panicked' =>
              LET votes == SelectSeq(PopOrder(channel[self]), IsVote)
                  senders == {votes[k].body.id : k \in 1..Len(votes)}
                  old == votes_received[self]
                  new == votes_received'[self]
              IN /\ \A id \in DOMAIN old :
                        id \in DOMAIN new /\ new[id] = old[id]
                 /\ DOMAIN new \subseteq DOMAIN old \cup senders
                 /\ \A id \in DOMAIN new \ DOMAIN old :
                        \E k \in 1..Len(votes) :
                            /\ votes[k].body.id = id
                            /\ new[id] = votes[k]
                            /\ \A j \in 1..(k - 1) : votes[j].body.id # id
                 /\ /\ role[self] = "Candidate"
                    /\ Cardinality(DOMAIN old \cup senders) <
                           QuorumOf(Cardinality(topology))
                    => role'[self] # "Leader"
      ]_vars

\* A Candidate has handled two different votes of one sender, both pushed
\* after it became Candidate, and with that sender alone recorded is
\* still Candidate.
C19_Witness ==
    \E id \in topology :
        /\ role[id] = "Candidate"
        /\ channel[id] = <<>>
        /\ Cardinality(DOMAIN votes_received[id]) = 1
        /\ \E d1 \in delivered, d2 \in delivered :
               /\ d1.to = id /\ d2.to = id
               /\ d1.role = "Candidate" /\ d2.role = "Candidate"
               /\ d1.message.body.id = d2.message.body.id
               /\ d1.message # d2.message
               /\ d1.message.body.id \in DOMAIN votes_received[id]

----------------------------------------------------------------------------
(* Properties that follow from the code as a whole *)

(* C21: no rejection among nodes built alike.  With the nodes built from   *)
(* a topology (term 0, Root-only log) and changed by tick alone, every     *)
(* RequestVote in a queue carries the term and log length of the node it   *)
(* waits for, no queue holds a RejectCandidateVote, and no call of tick    *)
(* has reached the todo!() of the RejectCandidateVote arm.                 *)
C21_NoRejectionAmongEquals ==
    /\ ~panicked
    /\ \A id \in topology : \A k \in 1..Len(channel[id]) :
           LET m == channel[id][k]
           IN /\ m.kind # "RejectCandidateVote"
              /\ IsRequest(m) =>
                     /\ m.body.current_term = current_term[id]
                     /\ m.body.log_length = Len(log[id])

\* Every node has solicited, and a queue holds the answers of all the
\* other nodes to its owner's request.
C21_Witness ==
    /\ \A id \in topology : role[id] # "Follower"
    /\ \E id \in topology : \A peer \in topology \ {id} :
           \E k \in 1..Len(channel[id]) :
               IsVote(channel[id][k]) /\ channel[id][k].body.id = peer

(* C22: role transitions.  A step changes a node's role only to Candidate, *)
(* in a call of tick in which its timer fires, or from Candidate to        *)
(* Leader, in a call of tick that leaves it with a quorum of recorded      *)
(* votes; and a node that is not Follower is not Follower after the step.  *)
C22_RoleTransitions ==
    [][\A id \in topology :
          /\ role'[id] # role[id] =>
                 \/ role'[id] = "Candidate" /\ Fired(id)
                 \/ /\ role[id] = "Candidate"
                    /\ role'[id] = "Leader"
                    /\ Ticked(id)
                    /\ Cardinality(DOMAIN votes_received'[id]) >=
                           QuorumOf(Cardinality(topology))
          /\ role[id] # "Follower" => role'[id] # "Follower"
      ]_vars

\* A node has gone Follower, Candidate, Leader and Candidate again: it is
\* Candidate with a quorum of votes recorded, which made it Leader when
\* the last of them was recorded.
C22_Witness ==
    \E id \in topology :
        /\ role[id] = "Candidate"
        /\ Cardinality(DOMAIN votes_received[id]) >=
               QuorumOf(Cardinality(topology))

(* C23: votes_received is never cleared.  No step removes or changes a     *)
(* recorded vote, a new candidacy included; so a Candidate that has a      *)
(* quorum recorded already, a former Leader whose timer fired, is Leader   *)
(* again at the first VoteForCandidate its drain comes to, whoever sent    *)
(* it.                                                                     *)
C23_VotesNeverCleared ==
    [][\A self \in topology :
          LET old == votes_received[self]
              new == votes_received'[self]
              inbox == PopOrder(channel[self])
              quorum == QuorumOf(Cardinality(topology))
          IN /\ \A id \in DOMAIN old :
                    id \in DOMAIN new /\ new[id] = old[id]
             /\ /\ Ticked(self)
                /\ ~panicked'
                /\ role[self] = "Candidate"
                /\ Cardinality(DOMAIN old) >= quorum
                /\ \E k \in 1..Len(inbox) : IsVote(inbox[k])
                => LET first == CHOOSE k \in 1..Len(inbox) :
                                    /\ IsVote(inbox[k])
                                    /\ \A j \in 1..(k - 1) : ~IsVote(inbox[j])
                   IN /\ \A j \in 0..(first - 1) :
                             DrainSteps(Buddy(self), j).role = "Candidate"
                      /\ DrainSteps(Buddy(self), first).role = "Leader"
                      /\ role'[self] = IF Fired(self) THEN "Candidate"
                                       ELSE "Leader"
      ]_vars

\* A node that was Leader when one vote was pushed to it was Candidate
\* again when a later vote was pushed, has handled that vote, and is
\* Leader.
C23_Witness ==
    \E id \in topology :
        /\ role[id] = "Leader"
        /\ channel[id] = <<>>
        /\ \E d1 \in delivered, d2 \in delivered :
               /\ d1.to = id /\ d2.to = id
               /\ d1.role = "Leader"
               /\ d2.role = "Candidate"
               /\ d1.at < d2.at
               /\ d2.at < ticks[id]

(* C24: no vote from oneself.  No queue holds a message sent by its own   *)
(* owner and no node has recorded a vote under its own id, so a node has   *)
(* at most n - 1 votes recorded, n the size of the topology; the quorum    *)
(* is floor(n / 2) + 1 of n, so in a topology of one member or of two no   *)
(* node is ever Leader.                                                    *)
C24_NoVoteFromOneself ==
    LET n == Cardinality(topology)
    IN /\ ~panicked
       /\ \A id \in topology :
              /\ \A k \in 1..Len(channel[id]) : channel[id][k].body.id # id
              /\ id \notin DOMAIN votes_received[id]
              /\ \A voter \in DOMAIN votes_received[id] :
                     /\ voter \in topology
                     /\ votes_received[id][voter].body.id = voter
              /\ Cardinality(DOMAIN votes_received[id]) <= n - 1
       /\ QuorumOf(n) = (n \div 2) + 1
       /\ n <= 2 => \A id \in topology : role[id] # "Leader"

\* In a topology of two, each node has the other's vote recorded, all it
\* can get, and has been ticked through a second candidacy: both are
\* Candidate.
C24_Witness ==
    /\ Cardinality(topology) = 2
    /\ \A id \in topology :
           /\ role[id] = "Candidate"
           /\ Cardinality(DOMAIN votes_received[id]) = 1
           /\ ticks[id] > timer[id].default_timeout + 1

====
